---- MODULE Spec2Model ----
(***************************************************************************)
(* Social Post Generator: the scraper domain (scrapeUrl / searchTopic),    *)
(* the posts domain (generatePosts / create / regenerate / getById / list) *)
(* with its data access layer and HTTP handlers.                           *)
(*                                                                         *)
(* A JavaScript string is modelled by its characters, run-length encoded:  *)
(* a sequence of runs [c |-> character, n |-> count], no run empty and no  *)
(* two neighbouring runs of the same character.  length, substring, trim,  *)
(* concatenation and the whitespace regexp are computed on that encoding,  *)
(* so the program's real limits (280, 3000, 5000, 500 ...) are kept.       *)
(***************************************************************************)
EXTENDS Integers, Sequences, FiniteSets, TLC

VARIABLES
    now,        \* Date.now(): a logical clock
    sc,         \* one call of ScraperLogic.scrapeUrl / searchTopic
    env,        \* process.env: is OPENAI_API_KEY set
    hook,       \* usePostDetail: the hook's state in one mounted component
    gen,        \* one run of the map callback of generatePosts, for one platform
    db,         \* global.mongoose (the connection cache) and the callers of connectDB
    store,      \* the posts collection (PostModel documents), in insertion order
    nextId,     \* source of fresh uuids
    reqs,       \* the HTTP requests being handled: one record per connection
    received    \* how many HTTP requests have arrived so far

vars == <<now, sc, env, hook, gen, db, store, nextId, reqs, received>>

-----------------------------------------------------------------------------
(* Strings *)

Run(c, n) == [c |-> c, n |-> n]

\* the string of n copies of character c
Str(c, n) == IF n <= 0 THEN <<>> ELSE <<Run(c, n)>>

\* undefined / null: an absent attribute, field or completion
Undefined == <<[c |-> "undefined", n |-> 0]>>

\* s.length
RECURSIVE StrLen(_)
StrLen(s) == IF s = <<>> THEN 0 ELSE Head(s).n + StrLen(Tail(s))

\* s + t
Concat(s, t) ==
    IF s = <<>> THEN t
    ELSE IF t = <<>> THEN s
    ELSE IF s[Len(s)].c = t[1].c
         THEN SubSeq(s, 1, Len(s) - 1) \o <<Run(t[1].c, s[Len(s)].n + t[1].n)>> \o Tail(t)
         ELSE s \o t

\* s.substring(0, k)
RECURSIVE Substring0(_, _)
Substring0(s, k) ==
    IF k <= 0 \/ s = <<>> THEN <<>>
    ELSE IF Head(s).n <= k THEN Concat(<<Head(s)>>, Substring0(Tail(s), k - Head(s).n))
    ELSE <<Run(Head(s).c, k)>>

IsSpace(c) == c \in {" ", "\n"}

\* s.trim()
RECURSIVE TrimStart(_)
TrimStart(s) == IF s # <<>> /\ IsSpace(Head(s).c) THEN TrimStart(Tail(s)) ELSE s
RECURSIVE TrimEnd(_)
TrimEnd(s) ==
    IF s # <<>> /\ IsSpace(s[Len(s)].c) THEN TrimEnd(SubSeq(s, 1, Len(s) - 1)) ELSE s
Trim(s) == TrimEnd(TrimStart(s))

\* s.replace(/\s+/g, ' '): every maximal run of whitespace becomes one space
RECURSIVE CollapseSpace(_)
CollapseSpace(s) ==
    IF s = <<>> THEN <<>>
    ELSE IF IsSpace(Head(s).c)
         THEN Concat(Str(" ", 1), CollapseSpace(TrimStart(s)))
         ELSE Concat(<<Head(s)>>, CollapseSpace(Tail(s)))

\* s.replace(/\n+/g, '\n')
RECURSIVE CollapseNewline(_)
CollapseNewline(s) ==
    IF s = <<>> THEN <<>>
    ELSE IF Head(s).c = "\n"
         THEN Concat(Str("\n", 1), CollapseNewline(Tail(s)))
         ELSE Concat(<<Head(s)>>, CollapseNewline(Tail(s)))

\* JavaScript truthiness of a string | undefined
Truthy(s) == s # Undefined /\ s # <<>>

\* a || b
OrElse(a, b) == IF Truthy(a) THEN a ELSE b

-----------------------------------------------------------------------------
(* Errors and results *)

\* a @hapi/boom error with output.statusCode = status
Boom(status, message) ==
    [ok |-> FALSE, isBoom |-> TRUE, status |-> status, message |-> message]
badRequest(message) == Boom(400, message)
notFound(message)   == Boom(404, message)
badGateway(message) == Boom(502, message)
internal(message)   == Boom(500, message)

\* any other thrown Error (TypeError, fetch failure, mongoose ValidationError)
PlainError(message) ==
    [ok |-> FALSE, isBoom |-> FALSE, status |-> 0, message |-> message]

Ok(value) == [ok |-> TRUE, value |-> value]

-----------------------------------------------------------------------------
(* Database connection: connectDB and the cache kept on `global`.           *)
(*                                                                         *)
(* An attempt is one invocation of mongoose.connect; attempts[a] is its     *)
(* promise's state.  cached.promise is the number of the attempt it holds   *)
(* and cached.conn the number of the attempt that made the connection; 0 is *)
(* null.  A caller keeps in awaits the attempt it waited on, after it has   *)
(* returned or thrown too.                                                  *)
(* queue lists the callers suspended at `await cached.promise`, in          *)
(* the order they began to wait.  JavaScript runs to completion: when a     *)
(* promise settles, the continuations waiting on it run one after the other *)
(* in that order before any other callback or new call runs.                *)

MaxCallers == 3
MaxConnectCalls == 4

CallerIdle == [pc |-> "idle", awaits |-> 0, got |-> 0]

DbIdle ==
    [cached |-> [conn |-> 0, promise |-> 0],
     attempts |-> <<>>,
     callers |-> [c \in 1..MaxCallers |-> CallerIdle],
     queue |-> <<>>,
     calls |-> 0]

\* the queued continuations that can run: their promise has settled
Runnable(d) ==
    {i \in 1..Len(d.queue) : d.attempts[d.callers[d.queue[i]].awaits] # "pending"}

\* ConnectDBEnter without the `if (!cached.promise)` test: every call that finds
\* no connection starts an attempt of its own
ConnectDBEnter_NoPromiseCheck(d, c) ==
    IF d.cached.conn # 0
    THEN [d EXCEPT !.callers[c] = [pc |-> "returned", awaits |-> 0, got |-> d.cached.conn],
                   !.calls = @ + 1]
    ELSE LET attempts == Append(d.attempts, "pending")
             promise == Len(attempts)
         IN [d EXCEPT !.cached.promise = promise,
                      !.attempts = attempts,
                      !.callers[c] = [pc |-> "awaiting", awaits |-> promise, got |-> 0],
                      !.queue = Append(@, c),
                      !.calls = @ + 1]

\* connectDB, from its call to its first await or to its return
ConnectDBEnter(d, c) ==
    IF d.cached.conn # 0
    THEN [d EXCEPT !.callers[c] = [pc |-> "returned", awaits |-> 0, got |-> d.cached.conn],
                   !.calls = @ + 1]
    ELSE LET attempts == IF d.cached.promise = 0 THEN Append(d.attempts, "pending")
                         ELSE d.attempts
             promise == IF d.cached.promise = 0 THEN Len(attempts) ELSE d.cached.promise
         IN [d EXCEPT !.cached.promise = promise,
                      !.attempts = attempts,
                      !.callers[c] = [pc |-> "awaiting", awaits |-> promise, got |-> 0],
                      !.queue = Append(@, c),
                      !.calls = @ + 1]

\* a caller invokes connectDB()
ConnectDBCall(c) ==
    /\ db.callers[c].pc # "awaiting"
    /\ db.calls < MaxConnectCalls
    /\ Runnable(db) = {}
    /\ db' = ConnectDBEnter(db, c)
    /\ UNCHANGED <<now, sc, env, hook, gen, store, nextId, reqs, received>>

\* mongoose.connect of a pending attempt resolves or rejects
ConnectSettles(a, connected) ==
    /\ a \in 1..Len(db.attempts) /\ db.attempts[a] = "pending"
    /\ Runnable(db) = {}
    /\ db' = [db EXCEPT !.attempts[a] = IF connected THEN "resolved" ELSE "rejected"]
    /\ UNCHANGED <<now, sc, env, hook, gen, store, nextId, reqs, received>>

\* ConnectDBResume with a catch that re-throws without clearing cached.promise
ConnectDBResume_NoReset ==
    /\ Runnable(db) # {}
    /\ LET i == CHOOSE i \in Runnable(db) : \A j \in Runnable(db) : i <= j
           c == db.queue[i]
           a == db.callers[c].awaits
           rest == SubSeq(db.queue, 1, i - 1) \o SubSeq(db.queue, i + 1, Len(db.queue))
       IN db' = IF db.attempts[a] = "resolved"
                THEN [db EXCEPT !.cached.conn = a,
                                !.callers[c] = [pc |-> "returned", awaits |-> a, got |-> a],
                                !.queue = rest]
                ELSE [db EXCEPT !.callers[c] = [pc |-> "threw", awaits |-> a, got |-> 0],
                                !.queue = rest]
    /\ UNCHANGED <<now, sc, env, hook, gen, store, nextId, reqs, received>>

\* connectDB, from `await cached.promise` to its return or throw, for the
\* first continuation queued
ConnectDBResume ==
    /\ Runnable(db) # {}
    /\ LET i == CHOOSE i \in Runnable(db) : \A j \in Runnable(db) : i <= j
           c == db.queue[i]
           a == db.callers[c].awaits
           rest == SubSeq(db.queue, 1, i - 1) \o SubSeq(db.queue, i + 1, Len(db.queue))
       IN db' = IF db.attempts[a] = "resolved"
                THEN [db EXCEPT !.cached.conn = a,
                                !.callers[c] = [pc |-> "returned", awaits |-> a, got |-> a],
                                !.queue = rest]
                ELSE [db EXCEPT !.cached.promise = 0,
                                !.callers[c] = [pc |-> "threw", awaits |-> a, got |-> 0],
                                !.queue = rest]
    /\ UNCHANGED <<now, sc, env, hook, gen, store, nextId, reqs, received>>

-----------------------------------------------------------------------------
(* Scraper domain: ScraperLogic.scrapeUrl                                  *)
(*                                                                         *)
(* A string argument is [tag |-> "string", text |-> its characters,        *)
(* scheme |-> the protocol `new URL(text)` yields, or "invalid" when       *)
(* `new URL(text)` throws]; a missing argument is [tag |-> "undefined"].   *)

NoArg == [tag |-> "undefined"]
StrArg(text, scheme) == [tag |-> "string", text |-> text, scheme |-> scheme]

\* !x for a string | undefined argument
Falsy(arg) == arg.tag = "undefined" \/ arg.text = <<>>

MaxContent == 5000
MinContent == 10

\* new URL(url) and the protocol check, inside the first try block
ScrapeUrlParse(url) ==
    IF url.scheme = "invalid" THEN PlainError(<<"Invalid URL">>)
    ELSE IF url.scheme \notin {"http:", "https:"}
         THEN badRequest(<<"URL must use http or https protocol">>)
         ELSE Ok(url)

\* the synchronous part of scrapeUrl, up to the fetch: an error, or Ok and the
\* fetch is issued
ScrapeUrlValidate(url) ==
    IF Falsy(url) THEN badRequest(<<"URL is required and must be a string">>)
    ELSE IF ScrapeUrlParse(url).ok
         THEN Ok(url)
         ELSE badRequest(<<"Invalid URL format">>)   \* the catch takes every throw

ContentTypeIsHtml(contentType) ==
    contentType \in {"text/html", "text/html; charset=utf-8"}

ScrapeTitle(page) ==
    OrElse(page.ogTitle, OrElse(page.twTitle, OrElse(page.titleText, Str("Untitled", 1))))

ScrapeDescription(page) ==
    OrElse(page.ogDesc, OrElse(page.twDesc, OrElse(page.metaDesc, <<>>)))

CleanText(bodyText) == Trim(CollapseNewline(CollapseSpace(bodyText)))

LimitContent(cleanedText) ==
    IF StrLen(cleanedText) > MaxContent
    THEN Concat(Substring0(cleanedText, MaxContent), Str(".", 3))
    ELSE cleanedText

\* the second try block: what the fetch returned, to a result or a throw
ScrapeUrlTry(url, resp, t) ==
    IF ~resp.fetched THEN PlainError(<<"fetch failed">>)
    ELSE IF ~resp.ok THEN badGateway(<<"Failed to fetch URL">>)
    ELSE IF ~ContentTypeIsHtml(resp.contentType)
         THEN badRequest(<<"URL must return HTML content">>)
    ELSE LET content == LimitContent(CleanText(resp.page.body)) IN
         IF content = <<>> \/ StrLen(content) < MinContent
         THEN badGateway(<<"No meaningful content could be extracted from URL">>)
         ELSE Ok([url |-> url.text,
                  title |-> Trim(ScrapeTitle(resp.page)),
                  description |-> Trim(ScrapeDescription(resp.page)),
                  content |-> content,
                  scrapedAt |-> t])

\* catch: Boom errors are re-thrown, others wrapped
ScrapeUrlCatch(r) ==
    IF r.ok \/ r.isBoom THEN r
    ELSE badGateway(<<"Failed to scrape URL: ">> \o r.message)

ScrapeUrlFetched(url, resp, t) == ScrapeUrlCatch(ScrapeUrlTry(url, resp, t))

-----------------------------------------------------------------------------
(* Scraper domain: ScraperLogic.searchTopic *)

MinTopic == 2
MaxTopic == 500
SearchLimit == 10

\* SearchTopicValidate with the upper bound off by one (>= for >)
SearchTopicValidate_OffByOne(topic) ==
    IF Falsy(topic) THEN badRequest(<<"Topic is required and must be a string">>)
    ELSE LET trimmedTopic == Trim(topic.text) IN
         IF StrLen(trimmedTopic) < MinTopic
         THEN badRequest(<<"Topic must be at least 2 characters long">>)
         ELSE IF StrLen(trimmedTopic) >= MaxTopic
         THEN badRequest(<<"Topic must be less than 500 characters">>)
         ELSE Ok(trimmedTopic)

\* the synchronous part of searchTopic, up to the fetch
SearchTopicValidate(topic) ==
    IF Falsy(topic) THEN badRequest(<<"Topic is required and must be a string">>)
    ELSE LET trimmedTopic == Trim(topic.text) IN
         IF StrLen(trimmedTopic) < MinTopic
         THEN badRequest(<<"Topic must be at least 2 characters long">>)
         ELSE IF StrLen(trimmedTopic) > MaxTopic
         THEN badRequest(<<"Topic must be less than 500 characters">>)
         ELSE Ok(trimmedTopic)

\* the body of the .each callback: a result block [title, href, snippet] where
\* href = [text |-> the attribute or Undefined, parses |-> does new URL(href,
\* searchUrl) succeed, uddg |-> the uddg parameter or Undefined]
EachResult(block, results) ==
    LET title == Trim(block.title)
        href == block.href.text
        snippet == Trim(block.snippet)
    IN  IF Truthy(title) /\ Truthy(href) /\ Truthy(snippet) /\ block.href.parses
        THEN Append(results, [title |-> title,
                              url |-> OrElse(block.href.uddg, href),
                              snippet |-> snippet])
        ELSE results

\* ParseResults with the limit tested before the callback's push is counted
RECURSIVE ParseResults_LateBreak(_, _)
ParseResults_LateBreak(blocks, results) ==
    IF blocks = <<>> THEN results
    ELSE LET next == EachResult(Head(blocks), results) IN
         IF Len(results) >= SearchLimit THEN next
         ELSE ParseResults_LateBreak(Tail(blocks), next)

\* $('.result').each(...): stops when the callback returns false
RECURSIVE ParseResults(_, _)
ParseResults(blocks, results) ==
    IF blocks = <<>> THEN results
    ELSE LET next == EachResult(Head(blocks), results) IN
         IF Len(next) >= SearchLimit THEN next
         ELSE ParseResults(Tail(blocks), next)

SearchTopicTry(trimmedTopic, resp, t) ==
    IF ~resp.fetched THEN PlainError(<<"fetch failed">>)
    ELSE IF ~resp.ok THEN badGateway(<<"Search request failed">>)
    ELSE LET results == ParseResults(resp.blocks, <<>>) IN
         IF Len(results) = 0
         THEN notFound(<<"No search results found for the given topic">>)
         ELSE Ok([query |-> trimmedTopic, results |-> results, searchedAt |-> t])

SearchTopicCatch(r) ==
    IF r.ok \/ r.isBoom THEN r
    ELSE badGateway(<<"Failed to search topic: ">> \o r.message)

SearchTopicFetched(trimmedTopic, resp, t) ==
    SearchTopicCatch(SearchTopicTry(trimmedTopic, resp, t))

-----------------------------------------------------------------------------
(* The web, as the scraper sees it: arguments and fetch responses *)

MaxBlocks == 11

UrlArgs ==
    { NoArg,
      StrArg(<<>>, "invalid"),
      StrArg(Str("x", 9), "invalid"),        \* 'not-a-url'
      StrArg(Str("h", 19), "https:"),        \* 'https://example.com'
      StrArg(Str("h", 18), "http:"),
      StrArg(Str("f", 17), "ftp:") }         \* 'ftp://example.com'

BodyLengths ==
    {0, MinContent - 1, MinContent, MaxContent - 1, MaxContent, MaxContent + 1,
     MaxContent + 3}

\* body texts: plain, padded with whitespace, and with an inner whitespace run
Bodies ==
    UNION { { Str("a", n),
              Concat(Str(" ", 2), Concat(Str("a", n), Str("\n", 1))),
              Concat(Str("a", n - 4),
                     Concat(Str(" ", 1), Concat(Str("\n", 2), Str("b", 4)))) }
            : n \in BodyLengths }

TitleValues(c) == { Undefined, <<>>, Str(" ", 2), Str(c, 5) }
DescValues(c)  == { Undefined, Concat(Str(c, 7), Str(" ", 1)) }

Pages ==
    [ ogTitle : TitleValues("o"), twTitle : TitleValues("t"),
      titleText : TitleValues("e") \ {Undefined},
      ogDesc : DescValues("O"), twDesc : DescValues("T"), metaDesc : DescValues("M"),
      body : Bodies ]

NoPage == [ogTitle |-> Undefined, twTitle |-> Undefined, titleText |-> <<>>,
           ogDesc |-> Undefined, twDesc |-> Undefined, metaDesc |-> Undefined,
           body |-> <<>>]

FetchFailed == [fetched |-> FALSE, ok |-> FALSE, contentType |-> "", page |-> NoPage,
                blocks |-> <<>>]
HttpError   == [fetched |-> TRUE, ok |-> FALSE, contentType |-> "text/html",
                page |-> NoPage, blocks |-> <<>>]
HtmlPage(contentType, page) ==
    [fetched |-> TRUE, ok |-> TRUE, contentType |-> contentType, page |-> page,
     blocks |-> <<>>]
SearchPage(blocks) ==
    [fetched |-> TRUE, ok |-> TRUE, contentType |-> "text/html", page |-> NoPage,
     blocks |-> blocks]

ScrapeResponses ==
    {FetchFailed, HttpError}
    \cup { HtmlPage("application/json", p) : p \in {q \in Pages : q.ogTitle = Undefined
                                                     /\ q.twTitle = Undefined
                                                     /\ q.ogDesc = Undefined} }
    \cup { HtmlPage("text/html; charset=utf-8", p) : p \in Pages }

TopicLengths == {0, MinTopic - 1, MinTopic, MinTopic + 1, MaxTopic - 1, MaxTopic,
                 MaxTopic + 1}

TopicArgs ==
    {NoArg}
    \cup { StrArg(Str("w", n), "invalid") : n \in TopicLengths }
    \cup { StrArg(Concat(Str(" ", 3), Concat(Str("w", n), Str(" ", 1))), "invalid")
           : n \in TopicLengths }

BlockKinds ==
    {"full", "redirect", "badurl", "blanktitle", "nolink", "emptyhref", "nosnippet"}

\* the i-th result block of a page; the position is encoded in the lengths
Block(i, kind) ==
    [ title   |-> CASE kind = "blanktitle" -> Str(" ", 2)
                    [] kind = "nolink"     -> <<>>
                    [] OTHER               -> Concat(Str(" ", 1), Str("t", i)),
      href    |-> [ text   |-> CASE kind = "nolink"    -> Undefined
                                 [] kind = "emptyhref" -> <<>>
                                 [] OTHER              -> Str("h", i),
                    parses |-> kind # "badurl",
                    uddg   |-> IF kind = "redirect" THEN Str("u", i) ELSE Undefined ],
      snippet |-> IF kind = "nosnippet" THEN Str("\n", 1)
                  ELSE Concat(Str("s", i), Str(" ", 1)) ]

\* short pages of every kind of block; long pages where any subset of the blocks
\* lacks its snippet
BlockLists ==
    UNION { { [i \in 1..n |-> Block(i, f[i])] : f \in [1..n -> BlockKinds] }
            : n \in 0..2 }
    \cup
    UNION { { [i \in 1..n |-> Block(i, IF i \in S THEN "nosnippet"
                                       ELSE IF i = 3 THEN "redirect" ELSE "full")]
              : S \in SUBSET (1..n) }
            : n \in (MaxBlocks - 1)..MaxBlocks }

SearchResponses == {FetchFailed, HttpError} \cup { SearchPage(b) : b \in BlockLists }

-----------------------------------------------------------------------------
(* One call of the scraper at a time *)

NoResult == [ok |-> FALSE, isBoom |-> FALSE, status |-> -1, message |-> <<"pending">>]

ScIdle == [pc |-> "idle", fn |-> "none", arg |-> NoArg, trimmed |-> <<>>,
           fetches |-> 0, resp |-> FetchFailed, result |-> NoResult]

\* scrapeUrl(url) runs to its first await
ScrapeUrlCall(url) ==
    /\ sc.pc = "idle"
    /\ LET v == ScrapeUrlValidate(url) IN
       sc' = [ScIdle EXCEPT !.fn = "scrapeUrl", !.arg = url,
                            !.pc = IF v.ok THEN "fetching" ELSE "done",
                            !.fetches = IF v.ok THEN 1 ELSE 0,
                            !.result = IF v.ok THEN NoResult ELSE v]
    /\ UNCHANGED <<now, env, hook, gen, db, store, nextId, reqs, received>>

\* the fetch settles and scrapeUrl runs to its end
ScrapeUrlReturn ==
    /\ sc.pc = "fetching" /\ sc.fn = "scrapeUrl"
    /\ \E resp \in ScrapeResponses :
          sc' = [sc EXCEPT !.pc = "done", !.resp = resp,
                           !.result = ScrapeUrlFetched(sc.arg, resp, now)]
    /\ UNCHANGED <<now, env, hook, gen, db, store, nextId, reqs, received>>

\* searchTopic(topic) runs to its first await
SearchTopicCall(topic) ==
    /\ sc.pc = "idle"
    /\ LET v == SearchTopicValidate(topic) IN
       sc' = [ScIdle EXCEPT !.fn = "searchTopic", !.arg = topic,
                            !.trimmed = IF v.ok THEN v.value ELSE <<>>,
                            !.pc = IF v.ok THEN "fetching" ELSE "done",
                            !.fetches = IF v.ok THEN 1 ELSE 0,
                            !.result = IF v.ok THEN NoResult ELSE v]
    /\ UNCHANGED <<now, env, hook, gen, db, store, nextId, reqs, received>>

\* the search fetch settles and searchTopic runs to its end
SearchTopicReturn ==
    /\ sc.pc = "fetching" /\ sc.fn = "searchTopic"
    /\ \E resp \in SearchResponses :
          sc' = [sc EXCEPT !.pc = "done", !.resp = resp,
                           !.result = SearchTopicFetched(sc.trimmed, resp, now)]
    /\ UNCHANGED <<now, env, hook, gen, db, store, nextId, reqs, received>>

\* one run of the map callback of generatePosts: the completion it received and the
\* variant it returned
GenIdle == [pc |-> "idle", p |-> 1, completion |-> Undefined,
            variant |-> [platform |-> "none", content |-> <<>>]]

\* usePostDetail before its first effect: useState(null), useState(true),
\* useState(null); id -1 stands for no effect run yet
HookIdle == [id |-> -1, post |-> [tag |-> "none"], loading |-> TRUE, error |-> "null",
             fetches |-> <<>>]

InitScraper ==
    /\ now = 0
    /\ sc = ScIdle
    /\ db = DbIdle
    /\ gen = GenIdle
    /\ hook = HookIdle
    /\ env = [OPENAI_API_KEY |-> TRUE]
    /\ store = <<>>
    /\ nextId = 1
    /\ reqs = <<>>
    /\ received = 0

NextScraper ==
    \/ \E url \in UrlArgs : ScrapeUrlCall(url)
    \/ ScrapeUrlReturn
    \/ \E topic \in TopicArgs : SearchTopicCall(topic)
    \/ SearchTopicReturn

SpecScraper == InitScraper /\ [][NextScraper]_vars

-----------------------------------------------------------------------------
(* Posts domain: PostsLogic.generatePosts *)

PLATFORM_CONFIGS ==
    << [platform |-> "twitter",   maxLength |-> 280],
       [platform |-> "linkedin",  maxLength |-> 3000],
       [platform |-> "facebook",  maxLength |-> 2000],
       [platform |-> "instagram", maxLength |-> 2200] >>

PlatformIdx == 1..Len(PLATFORM_CONFIGS)

\* CompletionContent without the trim
CompletionContent_NoTrim(completion) ==
    IF completion = Undefined THEN <<>> ELSE OrElse(completion, <<>>)

\* completion.choices[0]?.message?.content?.trim() || ''
CompletionContent(completion) ==
    IF completion = Undefined THEN <<>> ELSE OrElse(Trim(completion), <<>>)

\* FitContent cutting at maxLength, leaving no room for the ellipsis
FitContent_NoRoom(config, content) ==
    IF StrLen(content) > config.maxLength
    THEN Concat(Substring0(content, config.maxLength), Str(".", 3))
    ELSE content

\* the length check of the map callback
FitContent(config, content) ==
    IF StrLen(content) > config.maxLength
    THEN Concat(Substring0(content, config.maxLength - 3), Str(".", 3))
    ELSE content

\* what the map callback returns for a completion
GeneratedFor(config, completion) ==
    [platform |-> config.platform,
     content  |-> FitContent(config, CompletionContent(completion))]

\* GenerationError naming the first configured platform, whichever call raised
GenerationError_FirstPlatform(config) ==
    internal(<<"Failed to generate post for ", PLATFORM_CONFIGS[1].platform>>)

\* what the map callback throws when the completion call raises
GenerationError(config) == internal(<<"Failed to generate post for ", config.platform>>)

CallbackRuns(p, completion) ==
    /\ gen.pc = "idle"
    /\ gen' = [pc |-> "done", p |-> p, completion |-> completion,
               variant |-> GeneratedFor(PLATFORM_CONFIGS[p], completion)]
    /\ UNCHANGED <<now, sc, env, hook, db, store, nextId, reqs, received>>

NoCalls == [p \in PlatformIdx |-> "none"]
NoVariants == [p \in PlatformIdx |-> [platform |-> "none", content |-> <<>>]]

AllFulfilled(calls) == \A p \in PlatformIdx : calls[p] = "fulfilled"

\* Promise.all's value: the callbacks' values in PLATFORM_CONFIGS order
PromiseAllValue(results) == [p \in PlatformIdx |-> results[p]]

-----------------------------------------------------------------------------
(* Posts domain: PostModel and PostsDal *)

NoData == [tag |-> "none"]

\* mongoose validation of a new PostModel document / of a $set of generatedPosts
ValidVariants(generatedPosts) ==
    \A i \in 1..Len(generatedPosts) :
        /\ generatedPosts[i].platform \in {"twitter", "linkedin", "facebook", "instagram"}
        /\ Truthy(generatedPosts[i].content)          \* required: true

ValidPost(data) ==
    /\ ~Falsy(data.source)                            \* required: true
    /\ data.sourceType \in {"url", "topic"}           \* required, enum
    /\ ValidVariants(data.generatedPosts)

\* StampVariants with no default applied: createdAt stays at the epoch
StampVariants_NoDefault(generatedPosts, t) ==
    [i \in 1..Len(generatedPosts) |->
        [platform |-> generatedPosts[i].platform,
         content |-> generatedPosts[i].content,
         createdAt |-> 0]]

\* GeneratedPostSchema: createdAt defaults to Date.now
StampVariants(generatedPosts, t) ==
    [i \in 1..Len(generatedPosts) |->
        [platform |-> generatedPosts[i].platform,
         content |-> generatedPosts[i].content,
         createdAt |-> t]]

\* NewPost with a constant for the _id default in place of a fresh uuid
NewPost_FixedId(id, data, t) ==
    [id |-> 1, source |-> data.source, sourceType |-> data.sourceType,
     scrapedData |-> data.scrapedData,
     generatedPosts |-> StampVariants(data.generatedPosts, t),
     createdAt |-> t, updatedAt |-> t]

\* new PostModel(data): _id defaults to a fresh uuid, timestamps: true
NewPost(id, data, t) ==
    [id |-> id, source |-> data.source, sourceType |-> data.sourceType,
     scrapedData |-> data.scrapedData,
     generatedPosts |-> StampVariants(data.generatedPosts, t),
     createdAt |-> t, updatedAt |-> t]

\* PostsDal.create
DalCreate(posts, id, data, t) ==
    IF ValidPost(data)
    THEN [posts |-> Append(posts, NewPost(id, data, t)), result |-> Ok(NewPost(id, data, t))]
    ELSE [posts |-> posts, result |-> PlainError(<<"ValidationError">>)]

PostIndex(posts, id) == {i \in 1..Len(posts) : posts[i].id = id}

\* DalGetById with a findOne that has lost its filter: any document matches
DalGetById_AnyPost(posts, id) ==
    IF posts = <<>> THEN NoData ELSE posts[1]

\* PostsDal.getById: PostModel.findOne({ _id: id })
DalGetById(posts, id) ==
    IF PostIndex(posts, id) = {} THEN NoData
    ELSE posts[CHOOSE i \in PostIndex(posts, id) : TRUE]

\* DalUpdate replacing the document by the update instead of $set-ting a field
DalUpdate_Replace(posts, id, generatedPosts, t) ==
    IF ~ValidVariants(generatedPosts)
    THEN [posts |-> posts, result |-> PlainError(<<"ValidationError">>)]
    ELSE IF PostIndex(posts, id) = {}
    THEN [posts |-> posts, result |-> notFound(<<"Post not found">>)]
    ELSE LET i == CHOOSE i \in PostIndex(posts, id) : TRUE
             updated == [posts[i] EXCEPT !.generatedPosts = StampVariants(generatedPosts, t),
                                         !.scrapedData = NoData,
                                         !.updatedAt = t]
         IN [posts |-> [posts EXCEPT ![i] = updated], result |-> Ok(updated)]

\* DalUpdate writing the variants one element at a time and missing the first
DalUpdate_KeepsFirst(posts, id, generatedPosts, t) ==
    IF ~ValidVariants(generatedPosts)
    THEN [posts |-> posts, result |-> PlainError(<<"ValidationError">>)]
    ELSE IF PostIndex(posts, id) = {}
    THEN [posts |-> posts, result |-> notFound(<<"Post not found">>)]
    ELSE LET i == CHOOSE i \in PostIndex(posts, id) : TRUE
             stamped == StampVariants(generatedPosts, t)
             updated == [posts[i] EXCEPT !.generatedPosts =
                                            [k \in 1..Len(stamped) |->
                                                IF k = 1 THEN posts[i].generatedPosts[1]
                                                ELSE stamped[k]],
                                         !.updatedAt = t]
         IN [posts |-> [posts EXCEPT ![i] = updated], result |-> Ok(updated)]

\* PostsDal.update: findOneAndUpdate({ _id: id }, { $set: data }, runValidators)
DalUpdate(posts, id, generatedPosts, t) ==
    IF ~ValidVariants(generatedPosts)
    THEN [posts |-> posts, result |-> PlainError(<<"ValidationError">>)]
    ELSE IF PostIndex(posts, id) = {}
    THEN [posts |-> posts, result |-> notFound(<<"Post not found">>)]
    ELSE LET i == CHOOSE i \in PostIndex(posts, id) : TRUE
             updated == [posts[i] EXCEPT !.generatedPosts = StampVariants(generatedPosts, t),
                                         !.updatedAt = t]
         IN [posts |-> [posts EXCEPT ![i] = updated], result |-> Ok(updated)]

\* SortNewestFirst sorting on updatedAt instead of createdAt
RECURSIVE SortNewestFirst_ByUpdatedAt(_)
SortNewestFirst_ByUpdatedAt(posts) ==
    IF posts = <<>> THEN <<>>
    ELSE LET newest == CHOOSE i \in 1..Len(posts) :
                          /\ \A j \in 1..Len(posts) : posts[j].updatedAt <= posts[i].updatedAt
                          /\ \A j \in 1..(i - 1) : posts[j].updatedAt < posts[i].updatedAt
         IN <<posts[newest]>>
            \o SortNewestFirst_ByUpdatedAt(SubSeq(posts, 1, newest - 1)
                                           \o SubSeq(posts, newest + 1, Len(posts)))

\* PostsDal.getAll: PostModel.find().sort({ createdAt: -1 }); documents with
\* equal createdAt keep their insertion order
RECURSIVE SortNewestFirst(_)
SortNewestFirst(posts) ==
    IF posts = <<>> THEN <<>>
    ELSE LET newest == CHOOSE i \in 1..Len(posts) :
                          /\ \A j \in 1..Len(posts) : posts[j].createdAt <= posts[i].createdAt
                          /\ \A j \in 1..(i - 1) : posts[j].createdAt < posts[i].createdAt
         IN <<posts[newest]>>
            \o SortNewestFirst(SubSeq(posts, 1, newest - 1)
                               \o SubSeq(posts, newest + 1, Len(posts)))

DalGetAll(posts) == SortNewestFirst(posts)

-----------------------------------------------------------------------------
(* HTTP handlers: say / sayError and the catch block of every handler *)

NoResponse == [status |-> 0, body |-> NoData]

say(data, status) == [status |-> status, body |-> data]
sayError(message, status) == [status |-> status, body |-> [error |-> message]]

\* HandlerResponse with a catch that answers 500 whatever the error
HandlerResponse_Always500(result, okStatus, fallback) ==
    IF result.ok THEN say(result.value, okStatus)
    ELSE sayError(<<fallback>>, 500)

\* try { ...; return say(value, okStatus) } catch (error) { isBoom ? ... : 500 }
HandlerResponse(result, okStatus, fallback) ==
    IF result.ok THEN say(result.value, okStatus)
    ELSE IF result.isBoom THEN sayError(result.message, result.status)
    ELSE sayError(<<fallback>>, 500)

-----------------------------------------------------------------------------
(* Posts domain: PostsLogic.create, up to the scrape or search *)

\* the request body of POST /api/posts: json = FALSE when req.json() throws
CreateBody(source, sourceType, scrapedData) ==
    [json |-> TRUE, source |-> source, sourceType |-> sourceType,
     scrapedData |-> scrapedData]
MalformedBody ==
    [json |-> FALSE, source |-> NoArg, sourceType |-> "undefined", scrapedData |-> NoData]

\* the input validation of create
CreateValidate(input) ==
    IF Falsy(input.source) \/ Trim(input.source.text) = <<>>
    THEN badRequest(<<"Source is required">>)
    ELSE IF input.sourceType = "url" /\ input.source.scheme = "invalid"
    THEN badRequest(<<"Invalid URL provided">>)
    ELSE Ok(input)

\* the scrape or search call of create, to its first await
ExtractValidate(input) ==
    IF input.sourceType = "url"
    THEN ScrapeUrlValidate(input.source)
    ELSE SearchTopicValidate(input.source)

\* the scrape or search call of create, after its fetch
ExtractFetched(input, trimmed, resp, t) ==
    IF input.sourceType = "url"
    THEN ScrapeUrlFetched(input.source, resp, t)
    ELSE SearchTopicFetched(trimmed, resp, t)

\* the catch around the scrape or search call
ExtractCatch(input, r) ==
    IF r.ok THEN r
    ELSE badRequest(<<IF input.sourceType = "url" THEN "Failed to scrape URL: "
                      ELSE "Failed to search topic: ">> \o r.message)

-----------------------------------------------------------------------------
(* HTTP requests in flight.  A request record holds the handler's locals;   *)
(* pc is the await the handler is suspended at:                             *)
(*   "extracting"  create: the fetch of scrapeUrl / searchTopic             *)
(*   "loading"     getById, regenerate, list: the read of PostsDal          *)
(*   "generating"  generatePosts: Promise.all over the completion calls     *)
(*   "saving"      create / regenerate: PostsDal.create / PostsDal.update   *)
(*   "responded"   the handler has returned its response                    *)
(*   "idle"        the connection carries no request                        *)
(* raised is the error as first thrown (before any catch) and failedAt the  *)
(* pc it was thrown at; input holds the arguments generatePosts was called  *)
(* with; fetches, issued and dalWrites count the scraper fetches, the       *)
(* completion requests and the PostsDal.create / update calls the request   *)
(* has made.  post is the document regenerate has read.  prev is what the client holds from the request before, when   *)
(* both are GETs of the same post: the 200 response it received.            *)

NewRequest(op, body, id) ==
    [op |-> op, body |-> body, id |-> id, pc |-> "idle",
     trimmed |-> <<>>, input |-> NoData,
     calls |-> NoCalls, results |-> NoVariants,
     raised |-> NoResult, failedAt |-> "none", response |-> NoResponse,
     fetches |-> 0, issued |-> 0, dalWrites |-> 0, prev |-> NoResponse,
     post |-> NoData]

Fallback(op) ==
    CASE op = "create"     -> "Failed to create post"
      [] op = "regenerate" -> "Failed to regenerate post"
      [] op = "getById"    -> "Failed to get post"
      [] op = "list"       -> "Failed to list posts"

OkStatus(op) == IF op = "create" THEN 201 ELSE 200

\* the handler returns: result is the value or the error that reached it,
\* first the error as it was thrown at its origin
Respond(req, first, result) ==
    [req EXCEPT !.pc = "responded", !.failedAt = IF first.ok THEN "none" ELSE req.pc,
                !.raised = IF first.ok THEN NoResult ELSE first,
                !.response = HandlerResponse(result, OkStatus(req.op), Fallback(req.op))]

\* GeneratePostsCall awaiting in a loop: only the first request goes out
GeneratePostsCall_OneAtATime(req, source, sourceType, scrapedData) ==
    IF ~env.OPENAI_API_KEY
    THEN Respond([req EXCEPT !.pc = "generating",
                             !.input = [source |-> source, sourceType |-> sourceType,
                                        scrapedData |-> scrapedData]],
                 internal(<<"OpenAI API key is not configured">>),
                 internal(<<"OpenAI API key is not configured">>))
    ELSE [req EXCEPT !.pc = "generating",
                     !.input = [source |-> source, sourceType |-> sourceType,
                                scrapedData |-> scrapedData],
                     !.calls = [p \in PlatformIdx |-> IF p = 1 THEN "pending" ELSE "none"],
                     !.issued = 1]

\* GeneratePostsCall without the test of the key: the requests go out unsigned
GeneratePostsCall_NoKeyCheck(req, source, sourceType, scrapedData) ==
    [req EXCEPT !.pc = "generating",
                !.input = [source |-> source, sourceType |-> sourceType,
                           scrapedData |-> scrapedData],
                !.calls = [p \in PlatformIdx |-> "pending"],
                !.issued = Len(PLATFORM_CONFIGS)]

\* generatePosts(source, sourceType, scrapedData), to its await: the key
\* check, then every platform's completion request is issued by the map
GeneratePostsCall(req, source, sourceType, scrapedData) ==
    IF ~env.OPENAI_API_KEY
    THEN Respond([req EXCEPT !.pc = "generating",
                             !.input = [source |-> source, sourceType |-> sourceType,
                                        scrapedData |-> scrapedData]],
                 internal(<<"OpenAI API key is not configured">>),
                 internal(<<"OpenAI API key is not configured">>))
    ELSE [req EXCEPT !.pc = "generating",
                     !.input = [source |-> source, sourceType |-> sourceType,
                                scrapedData |-> scrapedData],
                     !.calls = [p \in PlatformIdx |-> "pending"],
                     !.issued = Len(PLATFORM_CONFIGS)]

\* a network round trip takes time: the clock has advanced when requests went out
Advance(req) == IF req.pc = "generating" THEN now + 1 ELSE now

\* a new request is taken by the first connection that carries none, or whose
\* request has been answered
FreeSlots == {r \in 1..Len(reqs) : reqs[r].pc \in {"idle", "responded"}}
FreeSlot == CHOOSE r \in FreeSlots : \A q \in FreeSlots : r <= q

\* POST /api/posts arrives: createHandler and PostsLogic.create run to the
\* first await of the scrape or search, or to the response
ReceiveCreate(body) ==
    LET req == NewRequest("create", body, 0)
        v == CreateValidate(body)
        e == ExtractValidate(body)
    IN  /\ FreeSlots # {}
        /\ reqs' = [reqs EXCEPT ![FreeSlot] =
              IF ~body.json THEN Respond(req, PlainError(<<"SyntaxError">>),
                                              PlainError(<<"SyntaxError">>))
              ELSE IF ~v.ok THEN Respond(req, v, v)
              ELSE IF ~e.ok THEN Respond([req EXCEPT !.pc = "extracting"],
                                         e, ExtractCatch(body, e))
              ELSE [req EXCEPT !.pc = "extracting", !.fetches = 1,
                               !.trimmed = IF body.sourceType = "url" THEN <<>>
                                           ELSE e.value]]
        /\ received' = received + 1
        /\ UNCHANGED <<now, sc, env, hook, gen, db, store, nextId>>

\* the fetch of the scrape or search settles: create runs on, through the
\* synchronous part of generatePosts
CreateExtracted(r, resp) ==
    /\ reqs[r].op = "create" /\ reqs[r].pc = "extracting"
    /\ LET req == reqs[r]
           e == ExtractFetched(req.body, req.trimmed, resp, now)
           next == IF ~e.ok THEN Respond(req, e, ExtractCatch(req.body, e))
                   ELSE GeneratePostsCall(req, req.body.source, req.body.sourceType,
                                          e.value)
       IN /\ reqs' = [reqs EXCEPT ![r] = next]
          /\ now' = Advance(next)
    /\ UNCHANGED <<sc, env, hook, gen, db, store, nextId, received>>

\* CallSettles with Promise.allSettled for Promise.all: a rejection is
\* waited out like a value, and the batch goes on to be saved
CallSettles_AllSettled(r, p, outcome) ==
    /\ reqs[r].calls[p] = "pending"
    /\ LET req == reqs[r]
           config == PLATFORM_CONFIGS[p]
           calls == [req.calls EXCEPT ![p] = IF outcome.raised THEN "rejected"
                                             ELSE "fulfilled"]
           results == [req.results EXCEPT ![p] = GeneratedFor(config, outcome.content)]
       IN reqs' = [reqs EXCEPT ![r] =
             IF req.pc # "generating" THEN [req EXCEPT !.calls = calls]
             ELSE [req EXCEPT !.calls = calls, !.results = results,
                              !.pc = IF \A q \in PlatformIdx : calls[q] # "pending"
                                     THEN "saving" ELSE "generating"]]
    /\ UNCHANGED <<now, sc, env, hook, gen, db, store, nextId, received>>

\* CallSettles with the callbacks pushing onto a shared list: the variants
\* come in the order the calls complete
CallSettles_Push(r, p, outcome) ==
    /\ reqs[r].calls[p] = "pending"
    /\ LET req == reqs[r]
           config == PLATFORM_CONFIGS[p]
           calls == [req.calls EXCEPT ![p] = IF outcome.raised THEN "rejected"
                                             ELSE "fulfilled"]
           k == Cardinality({q \in PlatformIdx : req.calls[q] = "fulfilled"})
           results == [req.results EXCEPT ![k + 1] = GeneratedFor(config, outcome.content)]
       IN reqs' = [reqs EXCEPT ![r] =
             IF req.pc # "generating" THEN [req EXCEPT !.calls = calls]
             ELSE IF outcome.raised
             THEN [Respond(req, GenerationError(config), GenerationError(config))
                      EXCEPT !.calls = calls, !.results = NoVariants]
             ELSE [req EXCEPT !.calls = calls, !.results = results,
                              !.pc = IF AllFulfilled(calls) THEN "saving"
                                     ELSE "generating"]]
    /\ UNCHANGED <<now, sc, env, hook, gen, db, store, nextId, received>>

\* one completion call settles: outcome = [raised, content].  Promise.all
\* rejects at the first rejection and fulfils when every call has fulfilled;
\* a call settling after the rejection changes nothing but itself
CallSettles(r, p, outcome) ==
    /\ reqs[r].calls[p] = "pending"
    /\ LET req == reqs[r]
           config == PLATFORM_CONFIGS[p]
           calls == [req.calls EXCEPT ![p] = IF outcome.raised THEN "rejected"
                                             ELSE "fulfilled"]
           results == [req.results EXCEPT ![p] = GeneratedFor(config, outcome.content)]
       IN reqs' = [reqs EXCEPT ![r] =
             IF req.pc # "generating" THEN [req EXCEPT !.calls = calls]
             ELSE IF outcome.raised
             THEN [Respond(req, GenerationError(config), GenerationError(config))
                      EXCEPT !.calls = calls, !.results = NoVariants]
             ELSE [req EXCEPT !.calls = calls, !.results = results,
                              !.pc = IF AllFulfilled(calls) THEN "saving"
                                     ELSE "generating"]]
    /\ UNCHANGED <<now, sc, env, hook, gen, db, store, nextId, received>>

\* create, after generatePosts: PostsDal.create and the 201 response
SaveCreated(r) ==
    /\ reqs[r].op = "create" /\ reqs[r].pc = "saving"
    /\ LET req == reqs[r]
           postData == [source |-> req.body.source, sourceType |-> req.body.sourceType,
                        scrapedData |-> req.input.scrapedData,
                        generatedPosts |-> PromiseAllValue(req.results)]
           d == DalCreate(store, nextId, postData, now)
       IN /\ store' = d.posts
          /\ reqs' = [reqs EXCEPT ![r] =
                        [Respond(req, d.result, d.result) EXCEPT !.dalWrites = @ + 1]]
    /\ nextId' = nextId + 1
    /\ UNCHANGED <<now, sc, env, hook, gen, db, received>>

\* the response a client holds when it repeats its GET of a post
LastRead(old, op, id) ==
    IF op = "getById" /\ old.op = "getById" /\ old.id = id /\ old.response.status = 200
    THEN old.response
    ELSE NoResponse

\* GET /api/posts/:id or POST /api/posts/:id/regenerate or GET /api/posts
\* arrives: id 0 stands for a blank id
ReceiveById(op, id) ==
    LET req == [NewRequest(op, MalformedBody, id)
                   EXCEPT !.prev = LastRead(reqs[FreeSlot], op, id)]
        blank == badRequest(<<"Post ID is required">>)
    IN  /\ FreeSlots # {}
        /\ reqs' = [reqs EXCEPT ![FreeSlot] =
                        IF op # "list" /\ id = 0 THEN Respond(req, blank, blank)
                        ELSE [req EXCEPT !.pc = "loading"]]
        /\ received' = received + 1
        /\ UNCHANGED <<now, sc, env, hook, gen, db, store, nextId>>

\* GetByIdLoaded with a read that touches the document's updatedAt
GetByIdLoaded_Touch(r) ==
    /\ reqs[r].op = "getById" /\ reqs[r].pc = "loading"
    /\ LET found == PostIndex(store, reqs[r].id)
           touched == [i \in 1..Len(store) |->
                          IF i \in found THEN [store[i] EXCEPT !.updatedAt = now + 1]
                          ELSE store[i]]
           post == DalGetById(touched, reqs[r].id)
           result == IF post = NoData THEN notFound(<<"Post not found">>) ELSE Ok(post)
       IN /\ reqs' = [reqs EXCEPT ![r] = Respond(reqs[r], result, result)]
          /\ store' = touched
    /\ UNCHANGED <<now, sc, env, hook, gen, db, nextId, received>>

\* getById: the read returns
GetByIdLoaded(r) ==
    /\ reqs[r].op = "getById" /\ reqs[r].pc = "loading"
    /\ LET post == DalGetById(store, reqs[r].id)
           result == IF post = NoData THEN notFound(<<"Post not found">>) ELSE Ok(post)
       IN reqs' = [reqs EXCEPT ![r] = Respond(reqs[r], result, result)]
    /\ UNCHANGED <<now, sc, env, hook, gen, db, store, nextId, received>>

\* list: the read returns
ListLoaded(r) ==
    /\ reqs[r].op = "list" /\ reqs[r].pc = "loading"
    /\ reqs' = [reqs EXCEPT ![r] = Respond(reqs[r], Ok(DalGetAll(store)),
                                                   Ok(DalGetAll(store)))]
    /\ UNCHANGED <<now, sc, env, hook, gen, db, store, nextId, received>>

\* RegenerateLoaded passing on the source and type but not the scrapedData
RegenerateLoaded_NoData(r) ==
    /\ reqs[r].op = "regenerate" /\ reqs[r].pc = "loading"
    /\ LET post == DalGetById(store, reqs[r].id)
           req == [reqs[r] EXCEPT !.post = post]
           missing == notFound(<<"Post not found">>)
           next == IF post = NoData THEN Respond(req, missing, missing)
                   ELSE GeneratePostsCall(req, post.source, post.sourceType, NoData)
       IN /\ reqs' = [reqs EXCEPT ![r] = next]
          /\ now' = Advance(next)
    /\ UNCHANGED <<sc, env, hook, gen, db, store, nextId, received>>

\* RegenerateLoaded clearing the stored variants before the new ones exist
RegenerateLoaded_ClearsFirst(r) ==
    /\ reqs[r].op = "regenerate" /\ reqs[r].pc = "loading"
    /\ LET post == DalGetById(store, reqs[r].id)
           req == [reqs[r] EXCEPT !.post = post]
           missing == notFound(<<"Post not found">>)
           next == IF post = NoData THEN Respond(req, missing, missing)
                   ELSE GeneratePostsCall(req, post.source, post.sourceType,
                                          post.scrapedData)
       IN /\ reqs' = [reqs EXCEPT ![r] = next]
          /\ now' = Advance(next)
          /\ store' = [i \in 1..Len(store) |->
                          IF store[i].id = reqs[r].id
                          THEN [store[i] EXCEPT !.generatedPosts = <<>>, !.updatedAt = now]
                          ELSE store[i]]
    /\ UNCHANGED <<sc, env, hook, gen, db, nextId, received>>

\* regenerate: the read returns, and regenerate runs on through the
\* synchronous part of generatePosts
RegenerateLoaded(r) ==
    /\ reqs[r].op = "regenerate" /\ reqs[r].pc = "loading"
    /\ LET post == DalGetById(store, reqs[r].id)
           req == [reqs[r] EXCEPT !.post = post]
           missing == notFound(<<"Post not found">>)
           next == IF post = NoData THEN Respond(req, missing, missing)
                   ELSE GeneratePostsCall(req, post.source, post.sourceType,
                                          post.scrapedData)
       IN /\ reqs' = [reqs EXCEPT ![r] = next]
          /\ now' = Advance(next)
    /\ UNCHANGED <<sc, env, hook, gen, db, store, nextId, received>>

\* regenerate, after generatePosts: PostsDal.update and the 200 response
SaveRegenerated(r) ==
    /\ reqs[r].op = "regenerate" /\ reqs[r].pc = "saving"
    /\ LET req == reqs[r]
           d == DalUpdate(store, req.id, PromiseAllValue(req.results), now)
       IN /\ store' = d.posts
          /\ reqs' = [reqs EXCEPT ![r] =
                        [Respond(req, d.result, d.result) EXCEPT !.dalWrites = @ + 1]]
    /\ UNCHANGED <<now, sc, env, hook, gen, db, nextId, received>>

InFlight == {r \in 1..Len(reqs) : reqs[r].pc \notin {"idle", "responded"}}

-----------------------------------------------------------------------------
(* What the clients send and what the upstream services answer *)

Sources ==
    { NoArg,
      StrArg(<<>>, "invalid"),                 \* ''
      StrArg(Str(" ", 2), "invalid"),          \* '  '
      StrArg(Str("w", 1), "invalid"),          \* 'a'
      StrArg(Str("w", 12), "invalid"),         \* 'web scraping'
      StrArg(Str("h", 19), "https:"),          \* 'https://example.com'
      StrArg(Str("f", 17), "ftp:") }           \* 'ftp://example.com'

SourceTypes == {"url", "topic", "undefined", "rss"}

ProvidedData == [title |-> Str("p", 5), description |-> <<>>, content |-> Str("p", 50)]

CreateBodies ==
    {MalformedBody}
    \cup { CreateBody(src, st, NoData) : src \in Sources, st \in SourceTypes }
    \cup { CreateBody(StrArg(Str("h", 19), "https:"), "url", ProvidedData) }

ValidBodies ==
    { CreateBody(StrArg(Str("h", 19), "https:"), "url", NoData),
      CreateBody(StrArg(Str("w", 12), "invalid"), "topic", NoData) }

SmallPage(n) ==
    [ogTitle |-> Undefined, twTitle |-> Undefined, titleText |-> Str("e", 5),
     ogDesc |-> Undefined, twDesc |-> Undefined, metaDesc |-> Undefined,
     body |-> Str("a", n)]

\* what the fetch of a create's scrape or search may return
ExtractResponses(body) ==
    IF body.sourceType = "url"
    THEN { FetchFailed, HttpError,
           HtmlPage("application/json", SmallPage(40)),
           HtmlPage("text/html", SmallPage(MinContent - 1)),
           HtmlPage("text/html", SmallPage(40)) }
    ELSE { FetchFailed, HttpError, SearchPage(<<>>),
           SearchPage(<<Block(1, "nosnippet")>>),
           SearchPage(<<Block(1, "full"), Block(2, "redirect")>>) }

GoodResponses(body) ==
    IF body.sourceType = "url"
    THEN { HttpError, HtmlPage("text/html", SmallPage(40)) }
    ELSE { SearchPage(<<>>), SearchPage(<<Block(1, "full")>>) }

Raises == [raised |-> TRUE, content |-> Undefined]
Returns(content) == [raised |-> FALSE, content |-> content]

\* what a completion call for platform p may do: raise, or return no content,
\* blank text, text of exactly the platform's length, with and without
\* surrounding whitespace, or longer text
Outcomes(p) ==
    LET max == PLATFORM_CONFIGS[p].maxLength IN
    { Raises,
      Returns(Undefined),
      Returns(Str(" ", 3)),
      Returns(Str("a", max)),
      Returns(Concat(Str(" ", 1), Concat(Str("a", max), Str("\n", 2)))),
      Returns(Str("a", max + 1)),
      Returns(Concat(Str("a", max - 2), Str("b", 5))) }

\* the same, reduced: raise, or return a text that differs from batch to batch
\* (the clock advances with every batch issued)
TimedOutcomes == { Raises, Returns(Str("a", 20 + now)) }

-----------------------------------------------------------------------------
(* SpecOne: one connection.  A post is created, then regenerated; every     *)
(* request body, every answer of the web and every completion is tried.     *)

MaxRequests == 2

InitOne ==
    /\ now = 0
    /\ sc = ScIdle
    /\ db = DbIdle
    /\ gen = GenIdle
    /\ hook = HookIdle
    /\ env \in [OPENAI_API_KEY : BOOLEAN]
    /\ store = <<>>
    /\ nextId = 1
    /\ reqs = <<NewRequest("none", MalformedBody, 0)>>
    /\ received = 0

NextOne ==
    \/ store = <<>> /\ received < MaxRequests
          /\ \E body \in CreateBodies : ReceiveCreate(body)
    \/ store # <<>> /\ received < MaxRequests
          /\ \E op \in {"getById", "regenerate", "list"}, id \in 0..2 : ReceiveById(op, id)
    \/ \E r \in InFlight : \E resp \in ExtractResponses(reqs[r].body) :
          CreateExtracted(r, resp)
    \/ \E r \in 1..Len(reqs), p \in PlatformIdx : \E o \in Outcomes(p) :
          CallSettles(r, p, o)
    \/ \E r \in InFlight : SaveCreated(r)
    \/ \E r \in InFlight : GetByIdLoaded(r)
    \/ \E r \in InFlight : ListLoaded(r)
    \/ \E r \in InFlight : RegenerateLoaded(r)
    \/ \E r \in InFlight : SaveRegenerated(r)

SpecOne == InitOne /\ [][NextOne]_vars

-----------------------------------------------------------------------------
(* Spec: several posts.  Requests with valid bodies create, read, list and   *)
(* regenerate posts one after the other; the web and the completion service *)
(* answer or fail; completions differ from batch to batch.                  *)

MaxArrivals == 4

Init ==
    /\ now = 0
    /\ sc = ScIdle
    /\ db = DbIdle
    /\ gen = GenIdle
    /\ hook = HookIdle
    /\ env = [OPENAI_API_KEY |-> TRUE]
    /\ store = <<>>
    /\ nextId = 1
    /\ reqs = <<NewRequest("none", MalformedBody, 0)>>
    /\ received = 0

Next ==
    \/ received < MaxArrivals /\ \E body \in ValidBodies : ReceiveCreate(body)
    \/ received < MaxArrivals
          /\ \E op \in {"getById", "regenerate", "list"}, id \in 1..MaxArrivals :
                ReceiveById(op, id)
    \/ \E r \in InFlight : \E resp \in GoodResponses(reqs[r].body) :
          CreateExtracted(r, resp)
    \/ \E r \in InFlight, p \in PlatformIdx : \E o \in TimedOutcomes :
          CallSettles(r, p, o)
    \/ \E r \in InFlight : SaveCreated(r)
    \/ \E r \in InFlight : GetByIdLoaded(r)
    \/ \E r \in InFlight : ListLoaded(r)
    \/ \E r \in InFlight : RegenerateLoaded(r)
    \/ \E r \in InFlight : SaveRegenerated(r)

Spec == Init /\ [][Next]_vars

-----------------------------------------------------------------------------
(* SpecCallback: the map callback of generatePosts, for every platform, on  *)
(* completions of every length around the platform's limit.                 *)

MaxOver == 4

\* texts of n characters: plain, and of two kinds of character changing
\* where the cut falls
Texts(max) ==
    UNION { { Str("a", n), Concat(Str("a", max - 3), Str("b", n - (max - 3))),
              Concat(Str("a", max - 4), Concat(Str(" ", 1), Str("b", n - (max - 3)))) }
            : n \in ((max - MaxOver)..(max + MaxOver)) \cup {1, 2 * max} }

\* what the completion service may return for a platform: nothing, blank
\* text, a text, or a text with whitespace around it
Completions(p) ==
    LET max == PLATFORM_CONFIGS[p].maxLength IN
    {Undefined, <<>>, Str(" ", 2)}
    \cup Texts(max)
    \cup { Concat(Str("\n", 1), Concat(t, Str(" ", 2))) : t \in Texts(max) }

InitCallback == Init

NextCallback == \E p \in PlatformIdx : \E completion \in Completions(p) :
                    CallbackRuns(p, completion)

SpecCallback == InitCallback /\ [][NextCallback]_vars

-----------------------------------------------------------------------------
(* SpecBatch: one create, its four completion calls settling in every       *)
(* order; what a call returns tells how many calls had settled before it.   *)

MaxBatches == 1

Settled(req) == Cardinality({p \in PlatformIdx : req.calls[p] # "pending"})

OrderedOutcomes(req) ==
    { Raises, Returns(Concat(Str("a", 20), Str("b", Settled(req) + 1))) }

NextBatch ==
    \/ received < MaxBatches /\ \E body \in ValidBodies : ReceiveCreate(body)
    \/ \E r \in InFlight : \E resp \in GoodResponses(reqs[r].body) :
          CreateExtracted(r, resp)
    \/ \E r \in 1..Len(reqs), p \in PlatformIdx : \E o \in OrderedOutcomes(reqs[r]) :
          CallSettles(r, p, o)
    \/ \E r \in InFlight : SaveCreated(r)

SpecBatch == Init /\ [][NextBatch]_vars

-----------------------------------------------------------------------------
(* SpecStored: the process starts on a collection that holds a post of an   *)
(* earlier run, with or without the OPENAI_API_KEY in its environment.      *)

MaxStored == 3

\* a post as create stored it at time 0
StoredPost ==
    NewPost(1, [source |-> StrArg(Str("h", 19), "https:"), sourceType |-> "url",
                scrapedData |-> [url |-> Str("h", 19), title |-> Str("e", 5),
                                 description |-> <<>>, content |-> Str("a", 40),
                                 scrapedAt |-> 0],
                generatedPosts |-> [p \in PlatformIdx |->
                                       [platform |-> PLATFORM_CONFIGS[p].platform,
                                        content |-> Str("a", 20)]]], 0)

InitStored ==
    /\ now = 1
    /\ sc = ScIdle
    /\ db = DbIdle
    /\ gen = GenIdle
    /\ hook = HookIdle
    /\ env \in [OPENAI_API_KEY : BOOLEAN]
    /\ store = <<StoredPost>>
    /\ nextId = 2
    /\ reqs = <<NewRequest("none", MalformedBody, 0)>>
    /\ received = 0

NextStored ==
    \/ received < MaxStored /\ \E body \in ValidBodies : ReceiveCreate(body)
    \/ received < MaxStored
          /\ \E op \in {"getById", "regenerate", "list"}, id \in 1..2 : ReceiveById(op, id)
    \/ \E r \in InFlight : \E resp \in GoodResponses(reqs[r].body) :
          CreateExtracted(r, resp)
    \/ \E r \in 1..Len(reqs), p \in PlatformIdx : \E o \in TimedOutcomes :
          CallSettles(r, p, o)
    \/ \E r \in InFlight : SaveCreated(r)
    \/ \E r \in InFlight : GetByIdLoaded(r)
    \/ \E r \in InFlight : ListLoaded(r)
    \/ \E r \in InFlight : RegenerateLoaded(r)
    \/ \E r \in InFlight : SaveRegenerated(r)

SpecStored == InitStored /\ [][NextStored]_vars

-----------------------------------------------------------------------------
(* SpecRace: two connections; regenerates of the stored post run side by    *)
(* side.  A completion tells which request asked for it.                    *)

MaxRacers == 2

RacerOutcomes(r) == { Raises, Returns(Str("a", 20 + r)) }

InitRace ==
    /\ now = 1
    /\ sc = ScIdle
    /\ db = DbIdle
    /\ gen = GenIdle
    /\ hook = HookIdle
    /\ env = [OPENAI_API_KEY |-> TRUE]
    /\ store = <<StoredPost>>
    /\ nextId = 2
    /\ reqs = <<NewRequest("none", MalformedBody, 0), NewRequest("none", MalformedBody, 0)>>
    /\ received = 0

NextRace ==
    \/ received < MaxRacers /\ ReceiveById("regenerate", 1)
    \/ \E r \in InFlight, p \in PlatformIdx : \E o \in RacerOutcomes(r) :
          CallSettles(r, p, o)
    \/ \E r \in InFlight : RegenerateLoaded(r)
    \/ \E r \in InFlight : SaveRegenerated(r)

SpecRace == InitRace /\ [][NextRace]_vars

-----------------------------------------------------------------------------
(* Client: the usePostDetail hook.  fetches lists the runs of fetchPost in   *)
(* the order they were started: the id asked for, the await the run is at   *)
(* ("fetching", "parsing") or "done", and how it ended.                     *)

MaxFetches == 2

\* the body of a 200 response of GET /api/posts/:id
PostData(id) == [tag |-> "post", id |-> id]

\* the effect runs for a new id ('' when id = 0): fetchPost to its first await
HookEffect(id) ==
    /\ id # hook.id
    /\ Len(hook.fetches) < MaxFetches
    /\ hook' = IF id = 0 THEN [hook EXCEPT !.id = id]
               ELSE [hook EXCEPT !.id = id, !.loading = TRUE, !.error = "null",
                                 !.fetches = Append(@, [id |-> id, pc |-> "fetching",
                                                        outcome |-> "none"])]
    /\ UNCHANGED <<now, sc, env, gen, db, store, nextId, reqs, received>>

\* catch and finally of fetchPost
HookCatch(k, message) ==
    [hook EXCEPT !.error = message, !.post = [tag |-> "none"], !.loading = FALSE,
                 !.fetches[k].pc = "done", !.fetches[k].outcome = message]

\* the fetch of run k settles: status 0 stands for a rejected fetch
HookFetchSettles(k, status) ==
    /\ k \in 1..Len(hook.fetches) /\ hook.fetches[k].pc = "fetching"
    /\ hook' = CASE status = 0   -> HookCatch(k, "Failed to fetch")
                 [] status = 200 -> [hook EXCEPT !.fetches[k].pc = "parsing"]
                 [] status = 404 -> HookCatch(k, "Post not found")
                 [] OTHER        -> HookCatch(k, "Failed to fetch post")
    /\ UNCHANGED <<now, sc, env, gen, db, store, nextId, reqs, received>>

\* response.json() of run k settles
HookJsonSettles(k, parsed) ==
    /\ k \in 1..Len(hook.fetches) /\ hook.fetches[k].pc = "parsing"
    /\ hook' = IF parsed
               THEN [hook EXCEPT !.post = PostData(hook.fetches[k].id), !.loading = FALSE,
                                 !.fetches[k].pc = "done", !.fetches[k].outcome = "ok"]
               ELSE HookCatch(k, "Unexpected end of JSON input")
    /\ UNCHANGED <<now, sc, env, gen, db, store, nextId, reqs, received>>

NextHook ==
    \/ \E id \in 0..2 : HookEffect(id)
    \/ \E k \in 1..MaxFetches, status \in {0, 200, 404, 500} : HookFetchSettles(k, status)
    \/ \E k \in 1..MaxFetches, parsed \in BOOLEAN : HookJsonSettles(k, parsed)

SpecHook == Init /\ [][NextHook]_vars

-----------------------------------------------------------------------------
(* SpecDB: callers of connectDB, while the database answers or fails *)

InitDB ==
    /\ now = 0
    /\ sc = ScIdle
    /\ db = DbIdle
    /\ gen = GenIdle
    /\ hook = HookIdle
    /\ env = [OPENAI_API_KEY |-> TRUE]
    /\ store = <<>>
    /\ nextId = 1
    /\ reqs = <<>>
    /\ received = 0

NextDB ==
    \/ \E c \in 1..MaxCallers : ConnectDBCall(c)
    \/ \E a \in 1..MaxConnectCalls, connected \in BOOLEAN : ConnectSettles(a, connected)
    \/ ConnectDBResume

SpecDB == InitDB /\ [][NextDB]_vars

-----------------------------------------------------------------------------
(* Properties of the scraper domain *)

ScrapeDone == sc.pc = "done" /\ sc.fn = "scrapeUrl"
SearchStarted == sc.fn = "searchTopic" /\ sc.pc \in {"fetching", "done"}
SearchDone == sc.fn = "searchTopic" /\ sc.pc = "done"

\* C4 (as claimed): the content field returned by scrapeUrl is never longer
\* than 5000 characters, whatever the length of the page's cleaned body text.
C4_ContentAtMost5000 ==
    (ScrapeDone /\ sc.result.ok) => StrLen(sc.result.value.content) <= 5000

\* the trimmed length of the topic argument (0 for a missing topic)
TopicTrimmedLength == IF sc.arg.tag = "undefined" THEN 0 ELSE StrLen(Trim(sc.arg.text))

\* C5: searchTopic fails with a 400 exactly when the topic's trimmed length is
\* < 2 or > 500; such a topic is rejected before any search request is issued,
\* and a topic of trimmed length 2..500 never fails with a 400.
C5_InvalidInputIffOutOfRange ==
    SearchStarted =>
        IF TopicTrimmedLength < 2 \/ TopicTrimmedLength > 500
        THEN /\ sc.pc = "done"
             /\ ~sc.result.ok /\ sc.result.isBoom /\ sc.result.status = 400
             /\ sc.fetches = 0
        ELSE /\ sc.fetches = 1
             /\ sc.pc = "done" => (sc.result.ok \/ sc.result.status # 400)

\* a padded topic of trimmed length exactly 500 was searched and returned results
C5_Witness ==
    /\ SearchDone /\ TopicTrimmedLength = 500 /\ StrLen(sc.arg.text) > 500
    /\ sc.result.ok

HasAllThree(block) ==
    Truthy(Trim(block.title)) /\ Truthy(block.href.text) /\ Truthy(Trim(block.snippet))

\* results is made of blocks of the page, in the order of the page
RECURSIVE InPageOrder(_, _)
InPageOrder(results, blocks) ==
    IF results = <<>> THEN TRUE
    ELSE IF blocks = <<>> THEN FALSE
    ELSE IF /\ Head(results).title = Trim(Head(blocks).title)
            /\ Head(results).snippet = Trim(Head(blocks).snippet)
            /\ Head(results).url \in {Head(blocks).href.text, Head(blocks).href.uddg}
         THEN InPageOrder(Tail(results), Tail(blocks))
         ELSE InPageOrder(results, Tail(blocks))

\* C6: a successful searchTopic returns 1..10 results, each with a non-empty
\* title, url and snippet, in page order; when the page was fetched and no block
\* has all three, it fails with a 404 and returns no list.
C6_ResultsOneToTenInOrder ==
    SearchDone =>
        /\ sc.result.ok =>
              LET results == sc.result.value.results IN
              /\ Len(results) >= 1 /\ Len(results) <= 10
              /\ \A i \in 1..Len(results) :
                    /\ Truthy(results[i].title)
                    /\ Truthy(results[i].url)
                    /\ Truthy(results[i].snippet)
              /\ InPageOrder(results, sc.resp.blocks)
        /\ (sc.fetches = 1 /\ sc.resp.fetched /\ sc.resp.ok
              /\ \A i \in 1..Len(sc.resp.blocks) : ~HasAllThree(sc.resp.blocks[i]))
           => (~sc.result.ok /\ sc.result.isBoom /\ sc.result.status = 404)

\* a page of more than 10 blocks, one of the first ten lacking its snippet,
\* gave exactly 10 results
C6_Witness ==
    /\ SearchDone /\ sc.result.ok
    /\ Len(sc.resp.blocks) > 10
    /\ \E i \in 1..10 : ~HasAllThree(sc.resp.blocks[i])
    /\ Len(sc.result.value.results) = 10

-----------------------------------------------------------------------------
(* Properties of generatePosts and of create, on one connection (SpecOne) *)

Slots == 1..Len(reqs)

\* the caps as the claim states them
CapOf(platform) ==
    CASE platform = "twitter"   -> 280
      [] platform = "linkedin"  -> 3000
      [] platform = "facebook"  -> 2000
      [] platform = "instagram" -> 2200

\* C1: every variant generatePosts produces, whatever the completion's length,
\* is no longer than its platform's cap; so is every variant stored by create
\* or regenerate.
C1_VariantsWithinCap ==
    /\ \A r \in Slots : \A p \in PlatformIdx :
          (reqs[r].pc \in {"generating", "saving"} /\ reqs[r].calls[p] = "fulfilled")
          => StrLen(reqs[r].results[p].content) <= CapOf(reqs[r].results[p].platform)
    /\ \A i \in 1..Len(store) : \A k \in 1..Len(store[i].generatedPosts) :
          StrLen(store[i].generatedPosts[k].content)
             <= CapOf(store[i].generatedPosts[k].platform)

\* a regenerated post whose twitter variant was cut to exactly 280 characters,
\* ending in the ellipsis, and whose linkedin variant is 3000 characters, uncut
C1_Witness ==
    /\ Len(store) = 1 /\ store[1].updatedAt > store[1].createdAt
    /\ LET tw == store[1].generatedPosts[1].content
           li == store[1].generatedPosts[2].content
       IN /\ StrLen(tw) = 280 /\ tw[Len(tw)] = Run(".", 3)
          /\ li = Str("a", 3000)

\* has the scrape or search of a create succeeded, and has every completion
ExtractionSucceeded(req) == req.fetches = 1 /\ req.input # NoData
SomeRejected(req) == \E p \in PlatformIdx : req.calls[p] = "rejected"

\* C2: create calls PostsDal.create if and only if the extraction and all four
\* completion calls succeeded; when a call fails, in whatever order the calls
\* settle, nothing is stored (the store, empty before the create, stays empty).
C2_CreateAllOrNothing ==
    \A r \in Slots : reqs[r].op = "create" =>
        /\ reqs[r].dalWrites = 1
              => (ExtractionSucceeded(reqs[r]) /\ AllFulfilled(reqs[r].calls))
        /\ (reqs[r].pc = "responded" /\ ExtractionSucceeded(reqs[r])
              /\ AllFulfilled(reqs[r].calls))
              => reqs[r].dalWrites = 1
        /\ SomeRejected(reqs[r]) => (reqs[r].dalWrites = 0 /\ store = <<>>)
        /\ ~ExtractionSucceeded(reqs[r]) => (reqs[r].dalWrites = 0 /\ store = <<>>)

\* a create answered 500 after its last call failed, the other three fulfilled
C2_Witness ==
    \E r \in Slots :
        /\ reqs[r].op = "create" /\ reqs[r].pc = "responded"
        /\ reqs[r].response.status = 500
        /\ reqs[r].calls[4] = "rejected"
        /\ \A p \in 1..3 : reqs[r].calls[p] = "fulfilled"
        /\ store = <<>>

\* C7 (as claimed): an error of the scraper during POST /posts keeps its status
\* up to the response (502 stays 502, 404 stays 404).
C7_ExtractorErrorKeepsStatus ==
    \A r \in Slots :
        (reqs[r].op = "create" /\ reqs[r].pc = "responded"
            /\ reqs[r].failedAt = "extracting" /\ reqs[r].raised.isBoom)
        => reqs[r].response.status = reqs[r].raised.status

BadCreateInput(body) ==
    \/ Falsy(body.source)
    \/ body.sourceType \notin {"url", "topic"}

\* C8 (as claimed): a POST /posts whose source is missing or empty, or whose
\* sourceType is missing or neither 'url' nor 'topic', is answered 4xx before any
\* fetch or completion request goes out, and nothing is stored.
C8_BadInputRejectedFirst ==
    \A r \in Slots :
        (reqs[r].op = "create" /\ reqs[r].body.json /\ BadCreateInput(reqs[r].body))
        => /\ reqs[r].pc = "responded"
           /\ reqs[r].response.status >= 400 /\ reqs[r].response.status <= 499
           /\ reqs[r].fetches = 0 /\ reqs[r].issued = 0 /\ reqs[r].dalWrites = 0

\* C9: when a completion call raises, the batch fails as a whole with a 500
\* whose message names a platform whose call did fail; generatePosts returns
\* only complete lists, one variant per platform.
C9_BatchFailsNamingPlatform ==
    \A r \in Slots :
        /\ SomeRejected(reqs[r]) =>
              /\ reqs[r].pc = "responded"
              /\ reqs[r].response.status = 500
              /\ \E p \in PlatformIdx :
                    /\ reqs[r].calls[p] = "rejected"
                    /\ reqs[r].response.body.error =
                          <<"Failed to generate post for ", PLATFORM_CONFIGS[p].platform>>
        /\ reqs[r].pc = "saving" =>
              \A p \in PlatformIdx :
                 reqs[r].results[p].platform = PLATFORM_CONFIGS[p].platform

\* the third call failed first and the first failed later; the second fulfilled
C9_Witness ==
    \E r \in Slots :
        /\ reqs[r].calls = [p \in PlatformIdx |->
                               CASE p = 1 -> "rejected" [] p = 2 -> "fulfilled"
                                 [] p = 3 -> "rejected" [] OTHER -> "pending"]
        /\ reqs[r].response.status = 500
        /\ reqs[r].response.body.error = <<"Failed to generate post for ", "facebook">>

-----------------------------------------------------------------------------
(* Properties of the store, over several posts (Spec) *)

\* C3: a successful regenerate(id) leaves the post's id, source, sourceType,
\* scrapedData and createdAt as they were, replaces its generatedPosts by the
\* new batch and its updatedAt by a later time, and changes no other post.
C3_RegenerateFrame ==
    [][ \A r \in Slots :
          (reqs[r].op = "regenerate" /\ reqs[r].pc = "saving"
              /\ reqs'[r].pc = "responded" /\ reqs'[r].response.status = 200)
          => /\ Len(store') = Len(store)
             /\ \E i \in 1..Len(store) : store[i].id = reqs[r].id
             /\ \A i \in 1..Len(store) :
                   IF store[i].id = reqs[r].id
                   THEN /\ store'[i].id = store[i].id
                        /\ store'[i].source = store[i].source
                        /\ store'[i].sourceType = store[i].sourceType
                        /\ store'[i].scrapedData = store[i].scrapedData
                        /\ store'[i].createdAt = store[i].createdAt
                        /\ store'[i].updatedAt > store[i].updatedAt
                        /\ \A p \in PlatformIdx :
                              /\ store'[i].generatedPosts[p].platform
                                    = reqs[r].results[p].platform
                              /\ store'[i].generatedPosts[p].content
                                    = reqs[r].results[p].content
                        /\ reqs'[r].response.body = store'[i]
                   ELSE store'[i] = store[i] ]_vars

\* two posts are stored; the first was regenerated and answered 200, and its
\* variants differ from the ones it was created with
C3_Witness ==
    /\ Len(store) = 2
    /\ store[1].updatedAt > store[1].createdAt
    /\ store[2].updatedAt = store[2].createdAt
    /\ store[1].generatedPosts[1].content # Str("a", 20 + store[1].createdAt)
    /\ \E r \in Slots : /\ reqs[r].op = "regenerate" /\ reqs[r].pc = "responded"
                        /\ reqs[r].response.status = 200
                        /\ reqs[r].id = store[1].id

-----------------------------------------------------------------------------
(* Properties of connectDB (SpecDB) *)

Callers == 1..MaxCallers
Attempts == 1..Len(db.attempts)

\* C18: connectDB is single-flight.  However many callers call it before a
\* connection exists, they all wait on one attempt: mongoose.connect is invoked
\* once (again only after an attempt has failed), never while an attempt is
\* pending; all callers that return hold the same connection; and once
\* cached.conn is set no attempt is ever started after the one that made it.
C18_ConnectSingleFlight ==
    /\ Cardinality({a \in Attempts : db.attempts[a] = "pending"}) <= 1
    /\ \A a \in Attempts : a < Len(db.attempts) => db.attempts[a] = "rejected"
    /\ \A c1, c2 \in Callers :
          (db.callers[c1].pc = "awaiting" /\ db.callers[c2].pc = "awaiting")
          => db.callers[c1].awaits = db.callers[c2].awaits
    /\ \A c \in Callers :
          db.callers[c].pc = "returned"
          => (db.cached.conn # 0 /\ db.callers[c].got = db.cached.conn)
    /\ db.cached.conn # 0 => db.cached.conn = Len(db.attempts)

\* three callers called before any connection existed: one attempt was made,
\* the first caller has returned its connection, the other two are about to
C18_Witness ==
    /\ Len(db.attempts) = 1 /\ db.attempts[1] = "resolved"
    /\ db.callers[1].pc = "returned" /\ db.callers[1].got = 1
    /\ db.callers[2].pc = "awaiting" /\ db.callers[2].awaits = 1
    /\ db.callers[3].pc = "awaiting" /\ db.callers[3].awaits = 1
    /\ db.calls = 3

-----------------------------------------------------------------------------
(* Properties of scrapeUrl's failures (SpecScraper) *)

\* C13 (as claimed): when the page was fetched with a success status and its
\* declared content type is not an HTML type, scrapeUrl fails with a 502.
C13_NonHtmlIsBadGateway ==
    (ScrapeDone /\ sc.fetches = 1 /\ sc.resp.fetched /\ sc.resp.ok
        /\ ~ContentTypeIsHtml(sc.resp.contentType))
    => (~sc.result.ok /\ sc.result.isBoom /\ sc.result.status = 502)

\* C14 (as claimed): a well-formed URL of another scheme than http or https is
\* rejected with a 400 'URL must use http or https protocol', an unparsable
\* string with a 400 'Invalid URL format'; neither is fetched.
C14_SchemeAndFormatMessages ==
    (ScrapeDone /\ ~Falsy(sc.arg) /\ sc.arg.scheme \notin {"http:", "https:"})
    => /\ sc.fetches = 0
       /\ ~sc.result.ok /\ sc.result.isBoom /\ sc.result.status = 400
       /\ sc.result.message = IF sc.arg.scheme = "invalid"
                              THEN <<"Invalid URL format">>
                              ELSE <<"URL must use http or https protocol">>

-----------------------------------------------------------------------------
(* Properties of list, getById and regenerate, over several posts (Spec) *)

\* C16: list returns every stored post exactly once, ordered by createdAt,
\* most recent first; the order does not depend on updatedAt, so a regenerate
\* does not move a post.
C16_ListNewestFirst ==
    \A r \in Slots :
        (reqs[r].op = "list" /\ reqs[r].pc = "responded") =>
            LET posts == reqs[r].response.body IN
            /\ reqs[r].response.status = 200
            /\ Len(posts) = Len(store)
            /\ \A i \in 1..Len(store) :
                  Cardinality({k \in 1..Len(posts) : posts[k] = store[i]}) = 1
            /\ \A k \in 1..(Len(posts) - 1) : posts[k].createdAt >= posts[k + 1].createdAt

\* two posts are listed; the older one was regenerated after the newer one was
\* created, and is still listed last
C16_Witness ==
    \E r \in Slots :
        /\ reqs[r].op = "list" /\ reqs[r].pc = "responded"
        /\ Len(reqs[r].response.body) = 2
        /\ reqs[r].response.body[2].createdAt < reqs[r].response.body[1].createdAt
        /\ reqs[r].response.body[2].updatedAt > reqs[r].response.body[1].updatedAt

\* C17: getById changes no stored post, and a getById that repeats the GET
\* before it (same id, nothing created or regenerated in between) returns the
\* same response.
C17_GetByIdReadOnlyIdempotent ==
    [][ \A r \in Slots :
          (reqs[r].op = "getById" /\ reqs[r].pc = "loading"
              /\ reqs'[r].pc = "responded")
          => /\ store' = store
             /\ reqs[r].prev # NoResponse => reqs'[r].response = reqs[r].prev ]_vars

\* a regenerated post was read twice in a row
C17_Witness ==
    \E r \in Slots :
        /\ reqs[r].op = "getById" /\ reqs[r].pc = "responded"
        /\ reqs[r].prev # NoResponse
        /\ reqs[r].response.status = 200
        /\ reqs[r].response.body.updatedAt > reqs[r].response.body.createdAt

\* C19: regenerate makes no scrape and no search, and the batch it runs takes
\* the source, sourceType and scrapedData of the stored post as its input.
C19_RegenerateUsesStored ==
    \A r \in Slots :
        reqs[r].op = "regenerate" =>
            /\ reqs[r].fetches = 0
            /\ reqs[r].input # NoData =>
                  \E i \in 1..Len(store) :
                      /\ store[i].id = reqs[r].id
                      /\ reqs[r].input = [source |-> store[i].source,
                                          sourceType |-> store[i].sourceType,
                                          scrapedData |-> store[i].scrapedData]

\* a post made from a topic was regenerated from its stored search results
C19_Witness ==
    \E r \in Slots :
        /\ reqs[r].op = "regenerate" /\ reqs[r].pc = "responded"
        /\ reqs[r].response.status = 200
        /\ reqs[r].input.sourceType = "topic"
        /\ reqs[r].input.scrapedData # NoData
        /\ Len(reqs[r].input.scrapedData.results) = 1

\* C20: the variants a successful regenerate returns are all stamped later
\* than every variant the post held before, and its updatedAt is later than
\* the previous one.
C20_RegeneratedLater ==
    [][ \A r \in Slots :
          (reqs[r].op = "regenerate" /\ reqs[r].pc = "saving"
              /\ reqs'[r].pc = "responded" /\ reqs'[r].response.status = 200)
          => \E i \in 1..Len(store) :
                /\ store[i].id = reqs[r].id
                /\ reqs'[r].response.body.updatedAt > store[i].updatedAt
                /\ \A p, q \in PlatformIdx :
                      reqs'[r].response.body.generatedPosts[p].createdAt
                         > store[i].generatedPosts[q].createdAt ]_vars

\* the only post was regenerated twice; the second regenerate was answered 200
C20_Witness ==
    \E r \in Slots :
        /\ reqs[r].op = "regenerate" /\ reqs[r].pc = "responded"
        /\ reqs[r].response.status = 200
        /\ Len(store) = 1
        /\ received = 3
        /\ store[1].generatedPosts[1].createdAt > store[1].createdAt + 1

-----------------------------------------------------------------------------
(* Properties of requests for a missing post (SpecOne) and of a process     *)
(* without its key (SpecStored)                                             *)

UnknownId(req) ==
    req.op \in {"getById", "regenerate"} /\ req.id # 0 /\ PostIndex(store, req.id) = {}

\* C12: GET /posts/{id} and POST /posts/{id}/regenerate for an id that matches
\* no stored post are answered 404; the regenerate issues no completion
\* request and makes no write.
C12_UnknownIdIsNotFound ==
    \A r \in Slots :
        UnknownId(reqs[r]) =>
            /\ reqs[r].pc \in {"loading", "responded"}
            /\ reqs[r].pc = "responded" => reqs[r].response.status = 404
            /\ reqs[r].issued = 0 /\ reqs[r].calls = NoCalls
            /\ reqs[r].dalWrites = 0

\* while a post is stored and the key is set, a regenerate of another id was
\* answered 404
C12_Witness ==
    \E r \in Slots :
        /\ reqs[r].op = "regenerate" /\ UnknownId(reqs[r])
        /\ reqs[r].pc = "responded" /\ reqs[r].response.status = 404
        /\ Len(store) = 1 /\ env.OPENAI_API_KEY

\* C15: without the OPENAI_API_KEY, every call of generatePosts fails with a
\* 500 'OpenAI API key is not configured' before any completion request is
\* issued; a create stores nothing and a regenerate leaves the stored post as
\* it was.
C15_NoKeyNoGeneration ==
    ~env.OPENAI_API_KEY =>
        /\ store = <<StoredPost>>
        /\ \A r \in Slots :
              /\ reqs[r].issued = 0 /\ reqs[r].calls = NoCalls /\ reqs[r].dalWrites = 0
              /\ reqs[r].input # NoData =>
                    /\ reqs[r].pc = "responded"
                    /\ reqs[r].response =
                          sayError(<<"OpenAI API key is not configured">>, 500)

\* without the key, a regenerate of the stored post reached generatePosts
C15_Witness ==
    \E r \in Slots :
        /\ ~env.OPENAI_API_KEY
        /\ reqs[r].op = "regenerate" /\ reqs[r].id = 1
        /\ reqs[r].input # NoData
        /\ reqs[r].response.status = 500

-----------------------------------------------------------------------------
(* Properties of the batch a create returns (SpecBatch) *)

\* C11: the post returned with a 201 holds exactly one variant for each
\* configured platform (twitter, linkedin, facebook, instagram), in the order
\* of PLATFORM_CONFIGS, in whatever order the completion calls settled.
C11_OneVariantPerPlatformInOrder ==
    \A r \in Slots :
        (reqs[r].op = "create" /\ reqs[r].pc = "responded"
            /\ reqs[r].response.status = 201) =>
            LET variants == reqs[r].response.body.generatedPosts IN
            /\ Len(variants) = 4
            /\ \A platform \in {"twitter", "linkedin", "facebook", "instagram"} :
                  Cardinality({k \in 1..Len(variants) : variants[k].platform = platform}) = 1
            /\ \A p \in PlatformIdx : variants[p].platform = PLATFORM_CONFIGS[p].platform

\* the calls settled in the reverse order (instagram first, twitter last) and
\* the create was answered 201
C11_Witness ==
    \E r \in Slots :
        /\ reqs[r].op = "create" /\ reqs[r].response.status = 201
        /\ \A p \in PlatformIdx :
              reqs[r].response.body.generatedPosts[p].content
                 = Concat(Str("a", 20), Str("b", 5 - p))

-----------------------------------------------------------------------------
(* Properties of identifiers (Spec) and of the handlers' statuses (SpecOne) *)

\* C21: the stored posts have pairwise distinct identifiers, and no step
\* (regenerate, list, getById, a later create) changes the identifier of a
\* post that is stored.
C21_IdsDistinctAndFixed ==
    [][ /\ \A i, j \in 1..Len(store') : store'[i].id = store'[j].id => i = j
        /\ Len(store') >= Len(store)
        /\ \A i \in 1..Len(store) : store'[i].id = store[i].id ]_vars

\* three posts are stored and one of them has been regenerated
C21_Witness ==
    /\ Len(store) = 3
    /\ \E i \in 1..3 : store[i].updatedAt > store[i].createdAt

\* the error that reached the handler: create wraps what its scrape or search
\* threw, every other error arrives as thrown
ReachedHandler(req) ==
    IF req.op = "create" /\ req.failedAt = "extracting"
    THEN ExtractCatch(req.body, req.raised)
    ELSE req.raised

\* C22: a handler answers 200 (201 for create) on success, the status code
\* and message of a Boom error that reaches it, and 500 for any other error
\* (a malformed JSON body, a database validation error).
C22_StatusFollowsOutcome ==
    \A r \in Slots :
        reqs[r].pc = "responded" =>
            IF reqs[r].failedAt = "none"
            THEN reqs[r].response.status = (IF reqs[r].op = "create" THEN 201 ELSE 200)
            ELSE IF ReachedHandler(reqs[r]).isBoom
            THEN /\ reqs[r].response.status = ReachedHandler(reqs[r]).status
                 /\ reqs[r].response.status \in {400, 404, 500}
                 /\ reqs[r].response.body.error = ReachedHandler(reqs[r]).message
            ELSE reqs[r].response.status = 500

\* a create whose sourceType the schema refuses was answered 500, after a 400,
\* a 404 ... were possible: here the database's validation error
C22_Witness ==
    \E r \in Slots :
        /\ reqs[r].op = "create" /\ reqs[r].pc = "responded"
        /\ reqs[r].failedAt = "saving" /\ ~reqs[r].raised.isBoom
        /\ reqs[r].response = sayError(<<"Failed to create post">>, 500)

\* C23 (as claimed): a create whose body supplies scrapedData makes no scrape
\* and no search, and generates from and stores the supplied data.
C23_SuppliedDataIsUsed ==
    \A r \in Slots :
        (reqs[r].op = "create" /\ reqs[r].body.json
            /\ reqs[r].body.scrapedData # NoData) =>
            /\ reqs[r].fetches = 0
            /\ reqs[r].input # NoData => reqs[r].input.scrapedData = reqs[r].body.scrapedData
            /\ reqs[r].response.status = 201
                  => reqs[r].response.body.scrapedData = reqs[r].body.scrapedData

-----------------------------------------------------------------------------
(* Properties of the map callback of generatePosts (SpecCallback) *)

\* the i-th character of a string
RECURSIVE CharAt(_, _)
CharAt(s, i) ==
    IF s = <<>> THEN ""
    ELSE IF i <= Head(s).n THEN Head(s).c
    ELSE CharAt(Tail(s), i - Head(s).n)

\* the upstream text after trimming ('' when the completion carries none)
UpstreamText == IF gen.completion = Undefined THEN <<>> ELSE Trim(gen.completion)

\* C24: for every platform cap max and upstream text t (trimmed): when
\* len(t) <= max the variant's content is t; when len(t) > max it is the first
\* max - 3 characters of t followed by '...', max characters in all.
C24_ContentKeptOrCut ==
    gen.pc = "done" =>
        LET max == CapOf(PLATFORM_CONFIGS[gen.p].platform)
            t == UpstreamText
            content == gen.variant.content
        IN /\ gen.variant.platform = PLATFORM_CONFIGS[gen.p].platform
           /\ IF StrLen(t) <= max
              THEN content = t
              ELSE /\ StrLen(content) = max
                   /\ \A i \in 1..(max - 3) : CharAt(content, i) = CharAt(t, i)
                   /\ \A i \in (max - 2)..max : CharAt(content, i) = "."

\* a twitter text of 281 characters, returned with whitespace around it, was
\* cut after its 277th character, a space, which is kept
C24_Witness ==
    /\ gen.pc = "done" /\ gen.p = 1
    /\ StrLen(gen.completion) > StrLen(UpstreamText)
    /\ StrLen(UpstreamText) = 281
    /\ gen.variant.content = Concat(Str("a", 276), Concat(Str(" ", 1), Str(".", 3)))

-----------------------------------------------------------------------------
(* Properties of the title scrapeUrl returns (SpecScraper) *)

\* is a title source present and not empty
Present(v) == v # Undefined /\ v # <<>>

\* C25 (as claimed): the title scrapeUrl returns is the first present one of
\* the Open-Graph title, the Twitter-card title and the <title> element,
\* trimmed, or 'Untitled' when none is present; it is never the empty string.
C25_TitleByPriorityNeverEmpty ==
    (ScrapeDone /\ sc.result.ok) =>
        LET page == sc.resp.page
            title == sc.result.value.title
        IN /\ title = IF Present(page.ogTitle) THEN Trim(page.ogTitle)
                      ELSE IF Present(page.twTitle) THEN Trim(page.twTitle)
                      ELSE IF Present(page.titleText) THEN Trim(page.titleText)
                      ELSE Str("Untitled", 1)
           /\ title # <<>>

-----------------------------------------------------------------------------
(* Properties of a regenerate that fails (SpecStored) *)

GenerationFailed(req) ==
    \/ SomeRejected(req)
    \/ ~env.OPENAI_API_KEY /\ req.input # NoData

\* C27: when the batch of a regenerate fails, because a completion call raises
\* or because the key is absent, PostsDal.update is not called and the stored
\* post is the one regenerate read: same generatedPosts, same updatedAt.
C27_FailedRegenerateKeepsPost ==
    \A r \in Slots :
        (reqs[r].op = "regenerate" /\ GenerationFailed(reqs[r])) =>
            /\ reqs[r].dalWrites = 0
            /\ reqs[r].pc = "responded" /\ reqs[r].response.status = 500
            /\ reqs[r].post # NoData
            /\ DalGetById(store, reqs[r].id) = reqs[r].post

\* a post regenerated once with success; the next regenerate failed on its
\* second call after the first had fulfilled, and a later call has settled too
C27_Witness ==
    \E r \in Slots :
        /\ reqs[r].op = "regenerate" /\ reqs[r].response.status = 500
        /\ reqs[r].calls[1] = "fulfilled" /\ reqs[r].calls[2] = "rejected"
        /\ reqs[r].calls[3] = "fulfilled"
        /\ reqs[r].post.updatedAt > reqs[r].post.createdAt
        /\ DalGetById(store, reqs[r].id) = reqs[r].post

-----------------------------------------------------------------------------
(* Properties of concurrent regenerates of one post (SpecRace) *)

\* the variants are the four of one batch: one per platform, in order, all
\* returned to the same request and stamped by the same write
OneBatch(variants) ==
    /\ Len(variants) = 4
    /\ \A p \in PlatformIdx :
          /\ variants[p].platform = PLATFORM_CONFIGS[p].platform
          /\ variants[p].content = variants[1].content
          /\ variants[p].createdAt = variants[1].createdAt

\* C26: while regenerates of the same post run concurrently, the stored
\* generatedPosts is at every moment the whole output of one batch, never a
\* mixture; each update that is applied replaces it by the batch of its own
\* call, so the final value is that of the update applied last.
C26_StoredIsOneBatch ==
    [][ /\ OneBatch(store'[1].generatedPosts)
        /\ \A r \in Slots :
              (reqs[r].op = "regenerate" /\ reqs[r].pc = "saving"
                  /\ reqs'[r].pc = "responded" /\ reqs'[r].response.status = 200)
              => /\ \A p \in PlatformIdx :
                       store'[1].generatedPosts[p].content = reqs[r].results[p].content
                 /\ reqs'[r].response.body = store'[1] ]_vars

\* both regenerates were answered 200; the one received first was applied
\* last, over the other's result
C26_Witness ==
    /\ \A r \in Slots : /\ reqs[r].op = "regenerate" /\ reqs[r].pc = "responded"
                        /\ reqs[r].response.status = 200
    /\ reqs[2].response.body.generatedPosts[1].content = Str("a", 22)
    /\ reqs[2].response.body # store[1]
    /\ store[1].generatedPosts[1].content = Str("a", 21)

-----------------------------------------------------------------------------
(* Properties of connectDB after a failed attempt (SpecDB) *)

Finished(c) == db.callers[c].pc \in {"returned", "threw"} /\ db.callers[c].awaits # 0

\* C28: when an attempt fails, every caller that waited on it receives the
\* error; cached.conn is set by resolved attempts only; once all the waiters
\* have returned, cached.promise is null, and the next call starts exactly one
\* fresh attempt; cached.promise is never null, nor an older attempt, while an
\* attempt is in flight: no reset discards the promise of a newer attempt.
C28_FailedAttemptIsCleared ==
    [][ /\ \A c \in Callers :
              Finished(c)' =>
                 /\ db'.callers[c].pc = "threw"
                       <=> db'.attempts[db'.callers[c].awaits] = "rejected"
                 /\ db'.callers[c].pc = "threw" => db'.callers[c].got = 0
        /\ db'.cached.conn # 0 => db'.attempts[db'.cached.conn] = "resolved"
        /\ (Runnable(db') = {} /\ db'.cached.promise # 0)
              => db'.attempts[db'.cached.promise] # "rejected"
        /\ \A a \in 1..Len(db'.attempts) :
              db'.attempts[a] = "pending" => db'.cached.promise = a
        /\ \A c \in Callers :
              (db.callers[c].pc # "awaiting" /\ db'.callers[c].pc = "awaiting"
                  /\ db.cached.promise = 0)
              => /\ Len(db'.attempts) = Len(db.attempts) + 1
                 /\ db'.callers[c].awaits = Len(db'.attempts)
                 /\ db'.cached.promise = Len(db'.attempts) ]_vars

\* three callers shared an attempt that failed and all three received the
\* error; the next call has started the second attempt, now in flight
C28_Witness ==
    /\ Len(db.attempts) = 2
    /\ db.attempts[1] = "rejected" /\ db.attempts[2] = "pending"
    /\ db.callers[1].pc = "awaiting" /\ db.callers[1].awaits = 2
    /\ db.callers[2].pc = "threw" /\ db.callers[2].awaits = 1
    /\ db.callers[3].pc = "threw" /\ db.callers[3].awaits = 1
    /\ db.cached = [conn |-> 0, promise |-> 2]
    /\ db.calls = 4

-----------------------------------------------------------------------------
(* Properties of usePostDetail (SpecHook) *)

AllSettled == \A k \in 1..Len(hook.fetches) : hook.fetches[k].pc = "done"

\* C29 (as claimed): when the id changed while the fetch for the previous id
\* was in flight, then once both fetches have settled the hook shows the
\* response for the latest id: its post and no error, or its error and no
\* post, in whichever order the two responses arrived.
C29_LatestIdWins ==
    (Len(hook.fetches) = 2 /\ AllSettled) =>
        LET latest == hook.fetches[Len(hook.fetches)] IN
        /\ ~hook.loading
        /\ IF latest.outcome = "ok"
           THEN hook.post = PostData(latest.id) /\ hook.error = "null"
           ELSE hook.post = [tag |-> "none"] /\ hook.error = latest.outcome

====
